---- MODULE Spec2Model ----
(***************************************************************************)
(* Request-side wrappers of vllm/entrypoints/utils.py (with_cancellation,  *)
(* listen_for_disconnect, load_aware_call, decrement_server_load) run      *)
(* under asyncio's cooperative scheduling, and the executors of            *)
(* vllm/executor/uniproc_executor.py.                                      *)
(*                                                                         *)
(* One action is one uninterrupted run of a coroutine between two          *)
(* suspension points of the event loop.                                    *)
(***************************************************************************)
EXTENDS Integers, Sequences, FiniteSets, TLC

\* ------------------------------------------------------------------ bounds
NumRequests == 1        \* requests in flight at once; they meet only in the counter
MaxHooks == 2           \* finalize hooks a handler attaches to its response
MaxInbox == 1           \* ASGI messages waiting unread on a connection
MaxCalls == 5           \* methods run on the worker of one executor
NumRanks == 3           \* ranks of the world group of an external launcher

Requests == 1..NumRequests

\* ------------------------------------------------------------- data model
\* A finalize hook is a number: DecrementHook stands for
\* BackgroundTask(decrement_server_load, raw_request), 1..MaxHooks for the
\* hooks the handler attached itself.
DecrementHook == 0
HandlerHooks == 1..MaxHooks

Iota(n) == [i \in 1..n |-> i]
Reverse(s) == [i \in 1..Len(s) |-> s[Len(s) + 1 - i]]

\* response.background: None, one BackgroundTask, or a BackgroundTasks list
NoBackground == [kind |-> "None", tasks |-> << >>]
SingleTask(h) == [kind |-> "BackgroundTask", tasks |-> <<h>>]
TaskList(s) == [kind |-> "BackgroundTasks", tasks |-> s]

HookLists == {Iota(n) : n \in 0..MaxHooks} \cup {Reverse(Iota(n)) : n \in 2..MaxHooks}
Backgrounds == {NoBackground} \cup {SingleTask(h) : h \in {1}}
                   \cup {TaskList(s) : s \in HookLists}

\* the hooks of a background, in the order Starlette runs them
HookSeq(bg) == bg.tasks

NoResponse == [cls |-> "NoneType", background |-> NoBackground]
HookedClasses == {"JSONResponse", "StreamingResponse"}
HandlerResponses ==
    {[cls |-> "JSONResponse", background |-> bg] : bg \in Backgrounds}
        \cup {[cls |-> "StreamingResponse", background |-> NoBackground]}
        \cup {[cls |-> "Response", background |-> NoBackground]}

\* what a coroutine or task ended with
Pending == [kind |-> "pending", resp |-> NoResponse, exc |-> "none"]
Return(resp) == [kind |-> "return", resp |-> resp, exc |-> "none"]
Raise(e) == [kind |-> "raise", resp |-> NoResponse, exc |-> e]
\* `return None` of with_cancellation: the disconnect sentinel
Sentinel == Return(NoResponse)

NoLedger == [inc |-> 0, failure |-> 0, nohook |-> 0, watcher |-> 0, hook |-> 0]

VARIABLES
    enable_server_load_tracking,  \* app.state.enable_server_load_tracking
    has_server_load_metrics,      \* hasattr(app.state, "server_load_metrics")
    server_load_metrics,          \* app.state.server_load_metrics
    nesting,            \* per request: the decorator order of its route
    tpc,                \* position of load_aware_call.wrapper
    gpc,                \* position of with_cancellation.wrapper
    handler_task,       \* state of asyncio task handler_task
    cancellation_task,  \* state of asyncio task cancellation_task
    inbox,              \* messages request.receive() will yield
    handler_out,        \* outcome of the undecorated route handler
    task_out,           \* outcome of handler_task
    guard_out,          \* outcome of with_cancellation.wrapper
    tracker_out,        \* outcome of load_aware_call.wrapper
    finalized,          \* the response was sent and its background ran
    ran,                \* hooks run by the response, in order
    ledger,             \* per request: counter mutations made on its behalf
    first_done          \* per request: the task that was done first

reqVars == <<enable_server_load_tracking, has_server_load_metrics,
             server_load_metrics, nesting, tpc, gpc, handler_task,
             cancellation_task, inbox, handler_out, task_out, guard_out,
             tracker_out, finalized, ran, ledger, first_done>>

VARIABLES
    config,         \* what the executor was constructed with
    estate,         \* UNINITIALIZED, INITIALIZING, READY, SHUTDOWN, FAILED
    driver_worker,  \* self.driver_worker was built (WorkerWrapperBase)
    worker_kwargs,  \* the kwargs handed to init_worker
    calls,          \* methods run on the worker by run_method, in order
    answers,        \* what collective_rpc returned last
    exec_error,     \* the exception that ended a call of the executor
    last_op,        \* the method of the executor that ran last
    rpc,            \* method, args and kwargs of the last collective_rpc
    seen,           \* method, args and kwargs run_method got for it
    worker_ret,     \* what run_method ended with for it
    reconfig        \* reinitialize_distributed: the request being handled

execVars == <<config, estate, driver_worker, worker_kwargs, calls, answers,
              exec_error, last_op, rpc, seen, worker_ret, reconfig>>

Ranks == 1..NumRanks

VARIABLES
    rank_pc,        \* where each rank is in determine_num_available_blocks
    report,         \* (a, b) of super().determine_num_available_blocks()
    a_tensor,       \* each rank's a_tensor
    b_tensor,       \* each rank's b_tensor
    contrib_a,      \* cpu_group: what each rank brought to the first all_reduce
    contrib_b,      \* cpu_group: what each rank brought to the second one
    result          \* the pair the method returned on each rank

rankVars == <<rank_pc, report, a_tensor, b_tensor, contrib_a, contrib_b,
              result>>

vars == <<reqVars, execVars, rankVars>>

\* ---------------------------------------------------------- pure helpers
\* a wrapper that overwrites response.background with its own task
AttachDecrement_Replace(bg) == SingleTask(DecrementHook)

\* load_aware_call.wrapper, lines 123-138: chain decrement_server_load to
\* whatever response.background holds.  BackgroundTasks is tested before
\* BackgroundTask because it is a subclass of it.
AttachDecrement(bg) ==
    IF bg.kind = "None"
    THEN SingleTask(DecrementHook)
    ELSE IF bg.kind = "BackgroundTasks"
    THEN TaskList(Append(bg.tasks, DecrementHook))
    ELSE TaskList(Append(Append(<< >>, bg.tasks[1]), DecrementHook))

\* isinstance(response, (JSONResponse, StreamingResponse))
IsHooked(resp) == resp.cls \in HookedClasses

\* a wrapper whose except clause re-raises without the decrement
TrackerDecrement_NoFailure(out) ==
    IF out.kind = "raise" THEN "none"
    ELSE IF IsHooked(out.resp) THEN "none"
    ELSE "nohook"

\* What load_aware_call.wrapper does with the outcome `out` of `await
\* func(...)` when tracking is enabled, lines 117-142: the name of the
\* immediate decrement it makes ("failure", "nohook") or "none" ...
TrackerDecrement(out) ==
    IF out.kind = "raise" THEN "failure"
    ELSE IF IsHooked(out.resp) THEN "none"
    ELSE "nohook"

\* ... and what it returns or raises
TrackerAfter(out) ==
    IF out.kind = "raise" THEN Raise(out.exc)
    ELSE IF IsHooked(out.resp)
    THEN Return([out.resp EXCEPT !.background = AttachDecrement(@)])
    ELSE Return(out.resp)

\* `x -= 1` / `x += 1` recorded against request r
Book(r, field) == [ledger EXCEPT ![r][field] = @ + 1]

\* the outcome the web framework receives from the outermost wrapper
FinalOut(r) ==
    IF nesting[r] = "GuardOuter" THEN guard_out[r] ELSE tracker_out[r]

HandlerOutcomes ==
    {Return(resp) : resp \in HandlerResponses} \cup {Raise("HandlerError")}

\* ------------------------------------------------------------------ Init
InitRequests ==
    /\ enable_server_load_tracking \in BOOLEAN
    /\ has_server_load_metrics \in BOOLEAN
    /\ server_load_metrics = 0
    /\ nesting = [r \in Requests |-> "none"]
    /\ tpc = [r \in Requests |-> "idle"]
    /\ gpc = [r \in Requests |-> "idle"]
    /\ handler_task = [r \in Requests |-> "none"]
    /\ cancellation_task = [r \in Requests |-> "none"]
    /\ inbox = [r \in Requests |-> << >>]
    /\ handler_out = [r \in Requests |-> Pending]
    /\ task_out = [r \in Requests |-> Pending]
    /\ guard_out = [r \in Requests |-> Pending]
    /\ tracker_out = [r \in Requests |-> Pending]
    /\ finalized = [r \in Requests |-> FALSE]
    /\ ran = [r \in Requests |-> << >>]
    /\ ledger = [r \in Requests |-> NoLedger]
    /\ first_done = [r \in Requests |-> "none"]

\* no executor is constructed yet
\* an absent number: a device index, an environment variable, a tensor slot
NoValue == 0 - 1

NoConfig == [kind |-> "none", delay_factor |-> 0, use_v1 |-> FALSE,
             enable_v1_multiprocessing |-> FALSE, environ |-> {},
             device_index |-> 0]
NoKwargs == [rank |-> 0 - 1, local_rank |-> 0 - 1,
             distributed_init_method |-> "none", is_driver_worker |-> FALSE]

\* arguments of a call: kwargs is None (given = FALSE) or a mapping, of
\* which the keys are kept
NoCall == [method |-> "none", args |-> << >>,
           kwargs |-> [given |-> FALSE, keys |-> {}]]
NoReply == [ok |-> TRUE, value |-> 0 - 1]
NoReconfig == [active |-> FALSE, new_data_parallel_rank |-> 0]

InitExecutor ==
    /\ config = NoConfig
    /\ estate = "UNINITIALIZED"
    /\ driver_worker = FALSE
    /\ worker_kwargs = NoKwargs
    /\ calls = << >>
    /\ answers = << >>
    /\ exec_error = "none"
    /\ last_op = "none"
    /\ rpc = NoCall
    /\ seen = NoCall
    /\ worker_ret = NoReply
    /\ reconfig = NoReconfig

NoReport == <<NoValue, NoValue>>

InitRanks ==
    /\ rank_pc = [r \in Ranks |-> "idle"]
    /\ report = [r \in Ranks |-> NoReport]
    /\ a_tensor = [r \in Ranks |-> NoValue]
    /\ b_tensor = [r \in Ranks |-> NoValue]
    /\ contrib_a = [r \in Ranks |-> NoValue]
    /\ contrib_b = [r \in Ranks |-> NoValue]
    /\ result = [r \in Ranks |-> NoReport]

Init == InitRequests /\ InitExecutor /\ InitRanks

\* ------------------------------------------------- load_aware_call.wrapper
\* lines 108-116, reached once raw_request was found: return await
\* func(...) when tracking is off, else create the counter if it is missing
\* and increment it; either way the wrapper is then inside `await func(...)`
TrackerEnter(r) ==
    IF enable_server_load_tracking
    THEN /\ has_server_load_metrics' = TRUE
         /\ server_load_metrics' =
                (IF has_server_load_metrics THEN server_load_metrics ELSE 0) + 1
         /\ ledger' = Book(r, "inc")
         /\ tpc' = [tpc EXCEPT ![r] = "awaiting"]
    ELSE /\ tpc' = [tpc EXCEPT ![r] = "direct"]
         /\ UNCHANGED <<has_server_load_metrics, server_load_metrics, ledger>>

\* lines 110 and 117-142: `await func(...)` ended with `out`
TrackerLeave(r, out) ==
    LET after == IF tpc[r] = "direct" THEN out ELSE TrackerAfter(out)
        dec == IF tpc[r] = "direct" THEN "none" ELSE TrackerDecrement(out)
    IN  /\ tracker_out' = [tracker_out EXCEPT ![r] = after]
        /\ tpc' = [tpc EXCEPT ![r] =
                      IF after.kind = "raise" THEN "raised" ELSE "returned"]
        /\ IF dec = "none"
           THEN UNCHANGED <<server_load_metrics, ledger>>
           ELSE /\ server_load_metrics' = server_load_metrics - 1
                /\ ledger' = Book(r, dec)
        /\ UNCHANGED has_server_load_metrics

\* a wrapper that looks for raw_request only after lines 113-116
TrackerNoRequest_AfterIncrement(r) ==
    /\ tracker_out' = [tracker_out EXCEPT ![r] = Raise("ValueError")]
    /\ tpc' = [tpc EXCEPT ![r] = "raised"]
    /\ IF enable_server_load_tracking
       THEN /\ has_server_load_metrics' = TRUE
            /\ server_load_metrics' =
                   (IF has_server_load_metrics THEN server_load_metrics ELSE 0) + 1
            /\ ledger' = Book(r, "inc")
       ELSE UNCHANGED <<has_server_load_metrics, server_load_metrics, ledger>>

\* lines 104-106: no raw_request among the arguments
TrackerNoRequest(r) ==
    /\ tracker_out' = [tracker_out EXCEPT ![r] = Raise("ValueError")]
    /\ tpc' = [tpc EXCEPT ![r] = "raised"]
    /\ UNCHANGED <<has_server_load_metrics, server_load_metrics, ledger>>

\* ------------------------------------------------ with_cancellation.wrapper
\* lines 78-82: both tasks are created, handler_task first, and the wrapper
\* suspends in asyncio.wait
GuardEnter(r) ==
    /\ handler_task' = [handler_task EXCEPT ![r] = "created"]
    /\ cancellation_task' = [cancellation_task EXCEPT ![r] = "created"]
    /\ gpc' = [gpc EXCEPT ![r] = "waiting"]

\* a wrapper that leaves the pending task running
CancelIfPending_Never(t, fin) == t

\* lines 83-84: task.cancel() for a task in `pending`; `fin` is the state in
\* which task t is in `done`
CancelIfPending(t, fin) == IF t = fin THEN t ELSE "cancelling"

\* a wrapper that tests `cancellation_task in done` first
GuardResult_WatcherFirst(r) ==
    IF cancellation_task[r] = "finished" THEN Sentinel ELSE task_out[r]

\* a wrapper that swallows the handler's failure
GuardResult_DropsFailure(r) ==
    IF handler_task[r] = "done" /\ task_out[r].kind = "return"
    THEN task_out[r] ELSE Sentinel

\* lines 86-88, with `done` as asyncio.wait reports it on resumption
GuardResult(r) ==
    IF handler_task[r] = "done" THEN task_out[r] ELSE Sentinel

\* the first of the two tasks to be done keeps that place
NoteDone(r, task) ==
    first_done' = [first_done EXCEPT ![r] = IF @ = "none" THEN task ELSE @]

\* ------------------------------------------------------------ the request
\* The framework calls the route: the outermost wrapper runs up to its first
\* suspension.  `located` says whether raw_request is among the arguments.
Arrive(r, n, located) ==
    /\ nesting[r] = "none"
    /\ nesting' = [nesting EXCEPT ![r] = n]
    /\ IF n = "GuardOuter"
       THEN /\ IF located
               THEN /\ GuardEnter(r)
                    /\ UNCHANGED guard_out
               ELSE \* line 76: kwargs["raw_request"] raises KeyError
                    /\ guard_out' = [guard_out EXCEPT ![r] = Raise("KeyError")]
                    /\ gpc' = [gpc EXCEPT ![r] = "raised"]
                    /\ UNCHANGED <<handler_task, cancellation_task>>
            /\ UNCHANGED <<has_server_load_metrics, server_load_metrics,
                           ledger, tpc, tracker_out>>
       ELSE /\ IF located
               THEN /\ TrackerEnter(r)
                    /\ GuardEnter(r)
                    /\ UNCHANGED tracker_out
               ELSE /\ TrackerNoRequest(r)
                    /\ UNCHANGED <<handler_task, cancellation_task, gpc>>
            /\ UNCHANGED guard_out
    /\ UNCHANGED <<first_done, enable_server_load_tracking, inbox, handler_out, task_out,
                   finalized, ran>>

\* First step of handler_task: handler_func runs up to the handler's first
\* await.  Under GuardOuter handler_func is load_aware_call.wrapper.
HandlerTaskStart(r) ==
    /\ handler_task[r] = "created"
    /\ handler_task' = [handler_task EXCEPT ![r] = "running"]
    /\ IF nesting[r] = "GuardOuter"
       THEN TrackerEnter(r)
       ELSE UNCHANGED <<has_server_load_metrics, server_load_metrics, ledger,
                        tpc>>
    /\ UNCHANGED <<first_done, enable_server_load_tracking, nesting, gpc,
                   cancellation_task, inbox, handler_out, task_out, guard_out,
                   tracker_out, finalized, ran>>

\* The route handler returns or raises; handler_func runs on to its end in
\* the same step and handler_task is done.  The ready queue is FIFO, so the
\* first step of cancellation_task has run before this one.
HandlerComplete(r, out) ==
    /\ handler_task[r] = "running"
    /\ cancellation_task[r] # "created"
    /\ handler_out' = [handler_out EXCEPT ![r] = out]
    /\ handler_task' = [handler_task EXCEPT ![r] = "done"]
    /\ NoteDone(r, "handler")
    /\ IF nesting[r] = "GuardOuter"
       THEN /\ TrackerLeave(r, out)
            /\ task_out' = [task_out EXCEPT ![r] = tracker_out'[r]]
       ELSE /\ task_out' = [task_out EXCEPT ![r] = out]
            /\ UNCHANGED <<has_server_load_metrics, server_load_metrics,
                           ledger, tpc, tracker_out>>
    /\ UNCHANGED <<enable_server_load_tracking, nesting, gpc,
                   cancellation_task, inbox, guard_out, finalized, ran>>

\* task.cancel() reaches handler_task: CancelledError is thrown into the
\* handler at its await.  It is no Exception, so line 119 does not catch it.
HandlerCancelled(r) ==
    /\ handler_task[r] = "cancelling"
    /\ handler_task' = [handler_task EXCEPT ![r] = "cancelled"]
    /\ handler_out' = [handler_out EXCEPT ![r] = Raise("CancelledError")]
    /\ task_out' = [task_out EXCEPT ![r] = Raise("CancelledError")]
    /\ IF nesting[r] = "GuardOuter"
       THEN /\ tpc' = [tpc EXCEPT ![r] = "cancelled"]
            /\ tracker_out' = [tracker_out EXCEPT ![r] = Raise("CancelledError")]
       ELSE UNCHANGED <<tpc, tracker_out>>
    /\ UNCHANGED <<first_done, enable_server_load_tracking, has_server_load_metrics,
                   server_load_metrics, nesting, gpc, cancellation_task, inbox,
                   guard_out, finalized, ran, ledger>>

\* ---------------------------------------------------- listen_for_disconnect
\* a watcher that does not look at enable_server_load_tracking
WatcherDecrements_NoFlag == has_server_load_metrics

\* lines 41-43: the condition under which a disconnect decrements
WatcherDecrements ==
    enable_server_load_tracking /\ has_server_load_metrics

\* First step of cancellation_task: it suspends in request.receive().  The
\* ready queue is FIFO, so handler_task's first step has run before.
WatcherStart(r) ==
    /\ cancellation_task[r] = "created"
    /\ handler_task[r] # "created"
    /\ cancellation_task' = [cancellation_task EXCEPT ![r] = "listening"]
    /\ UNCHANGED <<first_done, enable_server_load_tracking, has_server_load_metrics,
                   server_load_metrics, nesting, tpc, gpc, handler_task, inbox,
                   handler_out, task_out, guard_out, tracker_out, finalized,
                   ran, ledger>>

\* lines 36-37: a message that is no http.disconnect is dropped, loop again
WatcherIgnore(r) ==
    /\ cancellation_task[r] = "listening"
    /\ inbox[r] # << >>
    /\ Head(inbox[r]) # "http.disconnect"
    /\ inbox' = [inbox EXCEPT ![r] = Tail(@)]
    /\ UNCHANGED <<first_done, enable_server_load_tracking, has_server_load_metrics,
                   server_load_metrics, nesting, tpc, gpc, handler_task,
                   cancellation_task, handler_out, task_out, guard_out,
                   tracker_out, finalized, ran, ledger, first_done>>

\* lines 37-45: http.disconnect; decrement if tracking is on and the counter
\* exists, then the task is done
WatcherDisconnect(r) ==
    /\ cancellation_task[r] = "listening"
    /\ inbox[r] # << >>
    /\ Head(inbox[r]) = "http.disconnect"
    /\ inbox' = [inbox EXCEPT ![r] = Tail(@)]
    /\ cancellation_task' = [cancellation_task EXCEPT ![r] = "finished"]
    /\ NoteDone(r, "watcher")
    /\ IF WatcherDecrements
       THEN /\ server_load_metrics' = server_load_metrics - 1
            /\ ledger' = Book(r, "watcher")
       ELSE UNCHANGED <<server_load_metrics, ledger>>
    /\ UNCHANGED <<enable_server_load_tracking, has_server_load_metrics,
                   nesting, tpc, gpc, handler_task, handler_out, task_out,
                   guard_out, tracker_out, finalized, ran>>

\* task.cancel() reaches cancellation_task: CancelledError at its await,
\* whether or not a message was waiting
WatcherCancelled(r) ==
    /\ cancellation_task[r] = "cancelling"
    /\ cancellation_task' = [cancellation_task EXCEPT ![r] = "cancelled"]
    /\ UNCHANGED <<first_done, enable_server_load_tracking, has_server_load_metrics,
                   server_load_metrics, nesting, tpc, gpc, handler_task, inbox,
                   handler_out, task_out, guard_out, tracker_out, finalized,
                   ran, ledger>>

\* ------------------------------------------------------------- the client
\* The server puts a message of the connection where request.receive()
\* finds it; nothing follows an http.disconnect, read or unread.  Only
\* messages that arrive while the guard waits can be read by it.
Deliver(r, m) ==
    /\ gpc[r] = "waiting"
    /\ cancellation_task[r] \in {"created", "listening"}
    /\ Len(inbox[r]) < MaxInbox
    /\ \A i \in 1..Len(inbox[r]) : inbox[r][i] # "http.disconnect"
    /\ inbox' = [inbox EXCEPT ![r] = Append(@, m)]
    /\ UNCHANGED <<first_done, enable_server_load_tracking, has_server_load_metrics,
                   server_load_metrics, nesting, tpc, gpc, handler_task,
                   cancellation_task, handler_out, task_out, guard_out,
                   tracker_out, finalized, ran, ledger, first_done>>

\* --------------------------------------- with_cancellation.wrapper resumes
\* lines 81-88: asyncio.wait returns once a task is done; `done` and
\* `pending` are read when the wrapper runs again, every pending task gets
\* cancel(), and the wrapper returns or raises.  Under TrackerOuter its
\* caller load_aware_call.wrapper continues in the same step.
GuardResume(r) ==
    /\ gpc[r] = "waiting"
    /\ handler_task[r] = "done" \/ cancellation_task[r] = "finished"
    /\ handler_task' = [handler_task EXCEPT ![r] = CancelIfPending(@, "done")]
    /\ cancellation_task' = [cancellation_task EXCEPT ![r] =
                                CancelIfPending(@, "finished")]
    /\ guard_out' = [guard_out EXCEPT ![r] = GuardResult(r)]
    /\ gpc' = [gpc EXCEPT ![r] =
                  IF GuardResult(r).kind = "raise" THEN "raised" ELSE "returned"]
    /\ IF nesting[r] = "TrackerOuter"
       THEN TrackerLeave(r, GuardResult(r))
       ELSE UNCHANGED <<has_server_load_metrics, server_load_metrics, ledger,
                        tpc, tracker_out>>
    /\ UNCHANGED <<first_done, enable_server_load_tracking, nesting, inbox, handler_out,
                   task_out, finalized, ran>>

\* ---------------------------------------------------------- the framework
\* decrement_server_load, lines 93-94, is the hook DecrementHook
HookDecrements(hooks) ==
    Cardinality({i \in 1..Len(hooks) : hooks[i] = DecrementHook})

\* The route returned a response: it is sent, then its background runs the
\* hooks in order.
Finalize(r) ==
    /\ FinalOut(r).kind = "return"
    /\ FinalOut(r).resp # NoResponse
    /\ ~finalized[r]
    /\ finalized' = [finalized EXCEPT ![r] = TRUE]
    /\ LET hooks == HookSeq(FinalOut(r).resp.background)
       IN  /\ ran' = [ran EXCEPT ![r] = hooks]
           /\ server_load_metrics' = server_load_metrics - HookDecrements(hooks)
           /\ ledger' = [ledger EXCEPT ![r].hook = @ + HookDecrements(hooks)]
    /\ UNCHANGED <<first_done, enable_server_load_tracking, has_server_load_metrics,
                   nesting, tpc, gpc, handler_task, cancellation_task, inbox,
                   handler_out, task_out, guard_out, tracker_out>>

\* ------------------------------------------------------------ executors
ExecutorKinds == {"UniProcExecutor", "ExecutorWithExternalLauncher"}

\* vllm_config, vllm.envs and os.environ as the constructor finds them; an
\* absent device index or environment variable is NoValue.  Each class is
\* given the inputs its _init_executor reads.
NoEnviron == [RANK |-> NoValue, LOCAL_RANK |-> NoValue,
              MASTER_ADDR |-> FALSE, MASTER_PORT |-> FALSE]

UniProcConfigs ==
    [kind : {"UniProcExecutor"},
     delay_factor : {0},
     use_v1 : {FALSE},
     enable_v1_multiprocessing : {FALSE},
     environ : {NoEnviron},
     device_index : {NoValue, 1}]

ExternalConfigs ==
    [kind : {"ExecutorWithExternalLauncher"},
     delay_factor : {0, 1},
     use_v1 : BOOLEAN,
     enable_v1_multiprocessing : BOOLEAN,
     environ : [RANK : {NoValue, 0, 1}, LOCAL_RANK : {NoValue, 1},
                MASTER_ADDR : BOOLEAN, MASTER_PORT : BOOLEAN],
     device_index : {NoValue}]

Configs == UniProcConfigs \cup ExternalConfigs

\* a bootstrap that loads the model before the device is initialized
BootstrapSteps_LoadFirst == <<"init_worker", "load_model", "init_device">>

\* lines 47-49 and 127-129
BootstrapSteps == <<"init_worker", "init_device", "load_model">>

\* what run_method can end with: a value of the worker, or its exception
Replies == [ok : BOOLEAN, value : {0, 1}]

\* lines 32-37: the device index, if the device string has one, else 0
LocalRank(device_index) ==
    IF device_index # NoValue THEN device_index ELSE 0

\* call arguments a caller can pass
ArgLists == {<< >>, <<1>>}
KwargsGiven == {[given |-> FALSE, keys |-> {}], [given |-> TRUE, keys |-> {}],
                [given |-> TRUE, keys |-> {"k"}]}

\* lines 56-57: kwargs None becomes {}
DefaultKwargs(kwargs) ==
    IF kwargs.given THEN kwargs ELSE [given |-> TRUE, keys |-> {}]

\* a collective_rpc that returns an empty list
RpcResult_Empty(answer) == << >>

\* line 59: return [answer]
RpcResult(answer) == <<answer>>

\* lines 51-59: run the method on the one worker, return [answer]; an
\* exception of the worker leaves collective_rpc uncaught
CollectiveRpc(method, args, kwargs, reply) ==
    /\ last_op' = "collective_rpc"
    /\ rpc' = [method |-> method, args |-> args, kwargs |-> kwargs]
    /\ seen' = [method |-> method, args |-> args,
                kwargs |-> DefaultKwargs(kwargs)]
    /\ worker_ret' = reply
    /\ calls' = Append(calls, method)
    /\ IF reply.ok
       THEN /\ answers' = RpcResult(reply.value)
            /\ exec_error' = "none"
       ELSE /\ answers' = << >>
            /\ exec_error' = "WorkerError"

\* UniProcExecutor._init_executor, lines 28-46: up to the first
\* collective_rpc
ConstructUniProc(cfg) ==
    /\ driver_worker' = TRUE
    /\ worker_kwargs' = [rank |-> 0,
                         local_rank |-> LocalRank(cfg.device_index),
                         distributed_init_method |-> "tcp://",
                         is_driver_worker |-> TRUE]
    /\ estate' = "INITIALIZING"
    /\ exec_error' = "none"

\* assertions that let any delay factor through
ConfigAsserts_NoDelayCheck(cfg) ==
    ~(cfg.use_v1 /\ cfg.enable_v1_multiprocessing)

\* lines 99-106: delay_factor is 0.0, and under VLLM_USE_V1 the flag
\* VLLM_ENABLE_V1_MULTIPROCESSING is off
ConfigAsserts(cfg) ==
    /\ cfg.delay_factor = 0
    /\ cfg.use_v1 => ~cfg.enable_v1_multiprocessing

\* ExecutorWithExternalLauncher._init_executor, lines 99-126: the two
\* assertions, the worker wrapper, then RANK and LOCAL_RANK of os.environ
ConstructExternal(cfg) ==
    IF ~ConfigAsserts(cfg)
    THEN /\ exec_error' = "AssertionError"
         /\ estate' = "FAILED"
         /\ UNCHANGED <<driver_worker, worker_kwargs>>
    ELSE /\ driver_worker' = TRUE
         /\ IF cfg.environ.RANK = NoValue \/ cfg.environ.LOCAL_RANK = NoValue
            THEN /\ exec_error' = "KeyError"
                 /\ estate' = "FAILED"
                 /\ UNCHANGED worker_kwargs
            ELSE /\ worker_kwargs' = [rank |-> cfg.environ.RANK,
                                      local_rank |-> cfg.environ.LOCAL_RANK,
                                      distributed_init_method |-> "env://",
                                      is_driver_worker |-> TRUE]
                 /\ estate' = "INITIALIZING"
                 /\ exec_error' = "none"

\* the constructor enters _init_executor
Construct(cfg) ==
    /\ estate = "UNINITIALIZED"
    /\ config' = cfg
    /\ IF cfg.kind = "UniProcExecutor"
       THEN ConstructUniProc(cfg)
       ELSE ConstructExternal(cfg)
    /\ last_op' = "_init_executor"
    /\ UNCHANGED <<calls, answers, rpc, seen, worker_ret, reconfig>>

\* the next collective_rpc of _init_executor; its exception ends
\* _init_executor, the return of the third ends it normally
BootstrapStep(reply) ==
    /\ estate = "INITIALIZING"
    /\ CollectiveRpc(BootstrapSteps[Len(calls) + 1],
                     IF Len(calls) = 0 THEN <<1>> ELSE << >>,
                     [given |-> FALSE, keys |-> {}], reply)
    /\ estate' = IF ~reply.ok THEN "FAILED"
                 ELSE IF Len(calls') = Len(BootstrapSteps) THEN "READY"
                 ELSE "INITIALIZING"
    /\ UNCHANGED <<config, driver_worker, worker_kwargs, reconfig>>

\* a caller's collective_rpc on the constructed executor
WorkerMethods == {"execute_model", "determine_num_available_blocks"}

\* collective_rpc looks at no state of the executor: it runs on one that
\* was shut down as on one that is ready
Rpc(method, args, kwargs, reply) ==
    /\ estate \in {"READY", "SHUTDOWN"}
    /\ ~reconfig.active
    /\ Len(calls) < MaxCalls
    /\ CollectiveRpc(method, args, kwargs, reply)
    /\ UNCHANGED <<config, estate, driver_worker, worker_kwargs, reconfig>>

\* ReconfigureRankType of vllm.v1.engine
KEEP_CURRENT_RANK == 0 - 1
SHUTDOWN_CURRENT_RANK == 0 - 2
NewRanks == {SHUTDOWN_CURRENT_RANK, KEEP_CURRENT_RANK, 0, 1}

\* a reinitialize_distributed that shuts down on every request
ShutdownRequested_Always(req) == TRUE

\* lines 69-70
ShutdownRequested(req) ==
    req.new_data_parallel_rank = SHUTDOWN_CURRENT_RANK

\* ExecutorBase.shutdown: the executor is in SHUTDOWN
Shutdown == estate' = "SHUTDOWN"

\* reinitialize_distributed, line 68: the request goes to the worker; an
\* exception of the worker ends the method there
ReinitializeDistributed(new_rank, ok) ==
    /\ estate \in {"READY", "SHUTDOWN"}
    /\ ~reconfig.active
    /\ Len(calls) < MaxCalls
    /\ last_op' = "reinitialize_distributed"
    /\ calls' = Append(calls, "reinitialize_distributed")
    /\ reconfig' = [active |-> ok, new_data_parallel_rank |-> new_rank]
    /\ exec_error' = IF ok THEN "none" ELSE "WorkerError"
    /\ UNCHANGED <<config, estate, driver_worker, worker_kwargs, answers, rpc,
                   seen, worker_ret>>

\* lines 69-72: after the worker returned, shutdown() if the request asks
\* for it
ReinitializeReturn ==
    /\ reconfig.active
    /\ reconfig' = [reconfig EXCEPT !.active = FALSE]
    /\ IF ShutdownRequested(reconfig)
       THEN Shutdown
       ELSE UNCHANGED estate
    /\ UNCHANGED <<config, driver_worker, worker_kwargs, calls, answers,
                   exec_error, last_op, rpc, seen, worker_ret>>

\* ------------------------- ExecutorWithExternalLauncher, one per rank
\* local capacity reports (device blocks, host blocks) of a rank
Reports == {<<10, 20>>, <<8, 25>>, <<9, 22>>, <<10, 25>>}

\* the values the ranks of the group brought to a collective
Contributions(c) == {c[r] : r \in {q \in Ranks : c[q] # NoValue}}

\* a collective completes on a rank once something has arrived
AllContributed_Any(c) == \E r \in Ranks : c[r] # NoValue

\* dist.all_reduce blocks a rank until every rank of the group has joined
AllContributed(c) == \A r \in Ranks : c[r] # NoValue

\* a reduction that keeps the largest value
ReduceMin_Max(S) == CHOOSE x \in S : \A y \in S : y <= x

\* op=dist.ReduceOp.MIN
ReduceMin(S) == CHOOSE x \in S : \A y \in S : x <= y

\* lines 141-146: the local report, the two tensors, and the rank joins the
\* first all_reduce
DetermineNumAvailableBlocks(r, rep) ==
    /\ rank_pc[r] = "idle"
    /\ report' = [report EXCEPT ![r] = rep]
    /\ a_tensor' = [a_tensor EXCEPT ![r] = rep[1]]
    /\ b_tensor' = [b_tensor EXCEPT ![r] = rep[2]]
    /\ contrib_a' = [contrib_a EXCEPT ![r] = rep[1]]
    /\ rank_pc' = [rank_pc EXCEPT ![r] = "all_reduce_a"]
    /\ UNCHANGED <<contrib_b, result>>

\* line 146 returns with the reduced a_tensor; line 147: the rank joins the
\* second all_reduce
AllReduceA(r) ==
    /\ rank_pc[r] = "all_reduce_a"
    /\ AllContributed(contrib_a)
    /\ a_tensor' = [a_tensor EXCEPT ![r] = ReduceMin(Contributions(contrib_a))]
    /\ contrib_b' = [contrib_b EXCEPT ![r] = b_tensor[r]]
    /\ rank_pc' = [rank_pc EXCEPT ![r] = "all_reduce_b"]
    /\ UNCHANGED <<report, b_tensor, contrib_a, result>>

\* line 147 returns with the reduced b_tensor; line 148
AllReduceB(r) ==
    /\ rank_pc[r] = "all_reduce_b"
    /\ AllContributed(contrib_b)
    /\ b_tensor' = [b_tensor EXCEPT ![r] = ReduceMin(Contributions(contrib_b))]
    /\ result' = [result EXCEPT ![r] = <<a_tensor[r], b_tensor'[r]>>]
    /\ rank_pc' = [rank_pc EXCEPT ![r] = "returned"]
    /\ UNCHANGED <<report, a_tensor, contrib_a, contrib_b>>

\* ------------------------------------------------------------------ Next
Nestings == {"GuardOuter", "TrackerOuter"}
Messages == {"http.request", "http.disconnect"}

Next ==
    \/ \E r \in Requests, n \in Nestings, located \in BOOLEAN :
           Arrive(r, n, located) /\ UNCHANGED <<execVars, rankVars>>
    \/ \E r \in Requests :
           HandlerTaskStart(r) /\ UNCHANGED <<execVars, rankVars>>
    \/ \E r \in Requests, out \in HandlerOutcomes :
           HandlerComplete(r, out) /\ UNCHANGED <<execVars, rankVars>>
    \/ \E r \in Requests :
           HandlerCancelled(r) /\ UNCHANGED <<execVars, rankVars>>
    \/ \E r \in Requests :
           WatcherStart(r) /\ UNCHANGED <<execVars, rankVars>>
    \/ \E r \in Requests :
           WatcherIgnore(r) /\ UNCHANGED <<execVars, rankVars>>
    \/ \E r \in Requests :
           WatcherDisconnect(r) /\ UNCHANGED <<execVars, rankVars>>
    \/ \E r \in Requests :
           WatcherCancelled(r) /\ UNCHANGED <<execVars, rankVars>>
    \/ \E r \in Requests, m \in Messages :
           Deliver(r, m) /\ UNCHANGED <<execVars, rankVars>>
    \/ \E r \in Requests :
           GuardResume(r) /\ UNCHANGED <<execVars, rankVars>>
    \/ \E r \in Requests :
           Finalize(r) /\ UNCHANGED <<execVars, rankVars>>

Spec == Init /\ [][Next]_vars

\* the executor alone, with no request in the host
ExecInit ==
    /\ Init
    /\ ~enable_server_load_tracking
    /\ ~has_server_load_metrics

ExecNext ==
    \/ \E cfg \in Configs :
           Construct(cfg) /\ UNCHANGED <<reqVars, rankVars>>
    \/ \E reply \in Replies :
           BootstrapStep(reply) /\ UNCHANGED <<reqVars, rankVars>>
    \/ \E method \in WorkerMethods, args \in ArgLists, kwargs \in KwargsGiven,
          reply \in Replies :
           Rpc(method, args, kwargs, reply) /\ UNCHANGED <<reqVars, rankVars>>
    \/ \E new_rank \in NewRanks, ok \in BOOLEAN :
           ReinitializeDistributed(new_rank, ok) /\ UNCHANGED <<reqVars, rankVars>>
    \/ ReinitializeReturn /\ UNCHANGED <<reqVars, rankVars>>

SpecExec == ExecInit /\ [][ExecNext]_vars

\* the ranks of one world group, each in determine_num_available_blocks
RanksInit ==
    /\ Init
    /\ ~enable_server_load_tracking
    /\ ~has_server_load_metrics

RankCalls(r) ==
    \E rep \in Reports :
        DetermineNumAvailableBlocks(r, rep) /\ UNCHANGED <<reqVars, execVars>>

RankReducesA(r) == AllReduceA(r) /\ UNCHANGED <<reqVars, execVars>>

RankReducesB(r) == AllReduceB(r) /\ UNCHANGED <<reqVars, execVars>>

RanksNext ==
    \/ \E r \in Ranks : RankCalls(r)
    \/ \E r \in Ranks : RankReducesA(r)
    \/ \E r \in Ranks : RankReducesB(r)

SpecRanks == RanksInit /\ [][RanksNext]_vars

\* every rank is a process of its own and keeps running: a collective that
\* can complete on a rank does complete there.  Nothing makes a rank call.
RanksFairness ==
    \A r \in Ranks : WF_vars(RankReducesA(r)) /\ WF_vars(RankReducesB(r))

SpecRanksFair == RanksInit /\ [][RanksNext]_vars /\ RanksFairness

\* ----------------------------------------------------------------- claims
GuardFinished(r) == gpc[r] \in {"returned", "raised"} /\ handler_task[r] # "none"
TrackerFinished(r) == tpc[r] \in {"returned", "raised"}

\* the outcome of `await func(...)` inside load_aware_call.wrapper
InnerOut(r) ==
    IF nesting[r] = "GuardOuter" THEN handler_out[r] ELSE guard_out[r]

Decrements(r) ==
    ledger[r].failure + ledger[r].nohook + ledger[r].watcher + ledger[r].hook

RECURSIVE NetUpTo(_)
NetUpTo(n) ==
    IF n = 0 THEN 0 ELSE NetUpTo(n - 1) + ledger[n].inc - Decrements(n)

\* every mutation of the counter is booked against a request
LedgerSound == server_load_metrics = NetUpTo(NumRequests)

\* request r has ended: the route call is over, no task is left to run, and
\* a response, if the route returned one, has been sent and finalized
Settled(r) ==
    /\ nesting[r] # "none"
    /\ FinalOut(r).kind # "pending"
    /\ handler_task[r] \in {"none", "done", "cancelled"}
    /\ cancellation_task[r] \in {"none", "finished", "cancelled"}
    /\ (FinalOut(r).kind = "return" /\ FinalOut(r).resp # NoResponse)
           => finalized[r]

\* C1: with tracking enabled the counter stays within 0..NumRequests in
\* every reachable state; in particular it is never negative.
C1_CounterInRange ==
    enable_server_load_tracking =>
        server_load_metrics \in 0..NumRequests

\* C2: every increment made for a request is paired with exactly one
\* decrement for it, so once every request has ended and every response is
\* finalized the counter is exactly 0.
C2_IncrementsPaired ==
    (\A r \in Requests : Settled(r)) =>
        /\ server_load_metrics = 0
        /\ \A r \in Requests : Decrements(r) = ledger[r].inc

\* C3 as stated: when the watcher observed the disconnect before the handler
\* completed, the guard returns the sentinel, the handler task is cancelled
\* and the route produces no response.
C3_DisconnectFirst ==
    \A r \in Requests :
        (GuardFinished(r) /\ first_done[r] = "watcher") =>
            /\ guard_out[r] = Sentinel
            /\ handler_task[r] \in {"cancelling", "cancelled"}
            /\ FinalOut(r) = Sentinel
            /\ ~finalized[r]

\* C3 amended: when the watcher observed the disconnect and the handler task
\* is still not done when the guard resumes, the guard returns the sentinel,
\* the handler task is cancelled and the route produces no response.
C3_DisconnectWins ==
    \A r \in Requests :
        (GuardFinished(r) /\ cancellation_task[r] = "finished"
             /\ handler_task[r] # "done") =>
            /\ first_done[r] = "watcher"
            /\ guard_out[r] = Sentinel
            /\ handler_task[r] \in {"cancelling", "cancelled"}
            /\ FinalOut(r) = Sentinel
            /\ ~finalized[r]

C3_Witness ==
    \E r \in Requests :
        /\ GuardFinished(r)
        /\ first_done[r] = "watcher"
        /\ guard_out[r] = Sentinel
        /\ handler_task[r] = "cancelled"

\* C4 as stated: when the handler completed before a disconnect was
\* observed, the guard returns the handler's result or raises its failure,
\* and the watcher task is cancelled before the guard returns or raises.
C4_HandlerFirst ==
    \A r \in Requests :
        (GuardFinished(r) /\ first_done[r] = "handler") =>
            /\ guard_out[r] = task_out[r]
            /\ cancellation_task[r] \in {"cancelling", "cancelled"}

\* C4 amended: when the handler completed before a disconnect was observed,
\* the guard returns the handler's result or raises its failure, and the
\* watcher task, unless it has itself finished before the guard resumes, is
\* cancelled before the guard returns or raises.
C4_HandlerWins ==
    \A r \in Requests :
        (GuardFinished(r) /\ first_done[r] = "handler") =>
            /\ guard_out[r] = task_out[r]
            /\ guard_out[r].kind \in {"return", "raise"}
            /\ guard_out[r] # Sentinel
            /\ nesting[r] = "TrackerOuter" => guard_out[r] = handler_out[r]
            /\ cancellation_task[r] # "finished" =>
                   cancellation_task[r] \in {"cancelling", "cancelled"}

C4_Witness ==
    \E r \in Requests :
        /\ GuardFinished(r)
        /\ first_done[r] = "handler"
        /\ guard_out[r] = task_out[r]
        /\ cancellation_task[r] = "cancelled"

\* C5: a guard that has finished delivered exactly one of the handler's
\* outcome and the sentinel: the sentinel is never returned for a handler
\* task that is done (never both), and what is delivered is the handler
\* task's outcome or the sentinel after an observed disconnect (never
\* neither).
C5_ExactlyOne ==
    \A r \in Requests :
        GuardFinished(r) =>
            LET asHandler == handler_task[r] = "done" /\ guard_out[r] = task_out[r]
                asSentinel == /\ guard_out[r] = Sentinel
                              /\ cancellation_task[r] = "finished"
                              /\ handler_task[r] # "done"
            IN  /\ asHandler \/ asSentinel
                /\ ~(asHandler /\ asSentinel)
                /\ ~(handler_task[r] = "done" /\ guard_out[r] = Sentinel)

\* both tasks were done when the guard resumed
C5_Witness ==
    \E r \in Requests :
        /\ GuardFinished(r)
        /\ handler_task[r] = "done"
        /\ cancellation_task[r] = "finished"
        /\ guard_out[r] = task_out[r]

\* C6: after load_aware_call attached its hook to a hooked response, the
\* hook sequence is the one the response held, in its order, followed by
\* the decrement hook; a finalized response ran exactly that sequence.
C6_HooksPreserved ==
    \A r \in Requests :
        (tpc[r] = "returned" /\ ledger[r].inc = 1 /\ IsHooked(InnerOut(r).resp)) =>
            /\ tracker_out[r].resp.cls = InnerOut(r).resp.cls
            /\ HookSeq(tracker_out[r].resp.background) =
                   Append(HookSeq(InnerOut(r).resp.background), DecrementHook)
            /\ finalized[r] =>
                   ran[r] = Append(HookSeq(InnerOut(r).resp.background),
                                   DecrementHook)

\* a response that held several hooks got the decrement hook and was
\* finalized
C6_Witness ==
    \E r \in Requests :
        /\ tpc[r] = "returned"
        /\ ledger[r].inc = 1
        /\ InnerOut(r).resp.background.kind = "BackgroundTasks"
        /\ Len(HookSeq(InnerOut(r).resp.background)) >= 2
        /\ finalized[r]
        /\ Len(ran[r]) >= 3

C8_UsageErrorBeforeMutation ==
    [][\A r \in Requests :
           (enable_server_load_tracking
                /\ tracker_out[r] # Raise("ValueError")
                /\ tracker_out'[r] = Raise("ValueError")) =>
               /\ tracker_out[r] = Pending
               /\ UNCHANGED <<has_server_load_metrics, server_load_metrics,
                              ledger>>
               /\ handler_task'[r] = "none"
               /\ handler_out'[r] = Pending]_vars

C8_Witness ==
    \E r \in Requests :
        /\ enable_server_load_tracking
        /\ tracker_out[r] = Raise("ValueError")
        /\ ~has_server_load_metrics
        /\ handler_task[r] = "none"

C10_BootstrapOrder ==
    /\ [](/\ estate \in {"INITIALIZING", "FAILED"} =>
                /\ Len(calls) <= 3
                /\ calls = SubSeq(<<"init_worker", "init_device", "load_model">>,
                                  1, Len(calls))
          /\ estate = "INITIALIZING" => (Len(calls) < 3 /\ exec_error = "none")
          /\ estate = "FAILED" => exec_error # "none"
          /\ estate = "READY" =>
                /\ Len(calls) >= 3
                /\ SubSeq(calls, 1, 3) =
                       <<"init_worker", "init_device", "load_model">>
                /\ \A i \in 4..Len(calls) :
                       calls[i] \notin {"init_worker", "init_device",
                                        "load_model"})
    /\ [][/\ estate = "FAILED" => (estate' = "FAILED" /\ calls' = calls)
          /\ (estate # "READY" /\ estate' = "READY") =>
                 /\ estate = "INITIALIZING"
                 /\ calls' = <<"init_worker", "init_device", "load_model">>
                 /\ exec_error' = "none"
          /\ (estate = "INITIALIZING" /\ exec_error' # "none") =>
                 estate' = "FAILED"]_vars

\* init_device failed: load_model was never run and the executor is failed
C10_Witness ==
    /\ estate = "FAILED"
    /\ exec_error = "WorkerError"
    /\ calls = <<"init_worker", "init_device">>

\* C11: once the executor is in SHUTDOWN it stays there, and a later
\* collective_rpc ends with a terminal-state error without running anything
\* on the worker.
C11_ShutdownTerminal ==
    [][estate = "SHUTDOWN" =>
          /\ estate' = "SHUTDOWN"
          /\ last_op' = "collective_rpc" =>
                 (calls' = calls /\ exec_error' = "TerminalStateError")]_vars

\* C12: a collective_rpc that the worker answered returned a list of
\* exactly one element, the worker's answer, and the worker was run with the
\* given method and args and with the given kwargs, or with an empty
\* mapping when none were given; one in which the worker raised returned
\* no list and left the worker's exception to the caller.
C12_OneAnswer ==
    last_op = "collective_rpc" =>
        /\ seen.method = rpc.method
        /\ seen.args = rpc.args
        /\ seen.kwargs.given
        /\ seen.kwargs.keys = rpc.kwargs.keys
        /\ calls # << >> /\ calls[Len(calls)] = rpc.method
        /\ IF worker_ret.ok
           THEN /\ Len(answers) = 1
                /\ answers[1] = worker_ret.value
                /\ exec_error = "none"
           ELSE /\ answers = << >>
                /\ exec_error = "WorkerError"

\* a caller's call without kwargs was answered by the worker
C12_Witness ==
    /\ last_op = "collective_rpc"
    /\ estate = "READY"
    /\ rpc.method = "execute_model"
    /\ ~rpc.kwargs.given
    /\ worker_ret = [ok |-> TRUE, value |-> 1]
    /\ answers = <<1>>

\* C18: reinitialize_distributed hands the request to the worker before
\* anything else; the executor enters SHUTDOWN only in the step after the
\* worker returned normally and only for the shut-down-current-rank
\* request; for any other rank its state stays what it was, and when the
\* worker raised it is not shut down.
C18_ShutdownAfterReconfigure ==
    [][/\ (estate # "SHUTDOWN" /\ estate' = "SHUTDOWN") =>
              /\ estate = "READY"
              /\ reconfig.active
              /\ reconfig.new_data_parallel_rank = 0 - 2
              /\ calls' = calls
              /\ calls[Len(calls)] = "reinitialize_distributed"
              /\ exec_error = "none"
       /\ (reconfig.active /\ ~reconfig'.active) =>
              IF reconfig.new_data_parallel_rank = 0 - 2
              THEN estate' = "SHUTDOWN"
              ELSE estate' = estate
       /\ last_op' = "reinitialize_distributed" /\ last_op' # last_op =>
              /\ estate' = estate
              /\ calls' = Append(calls, "reinitialize_distributed")
       /\ (last_op' = "reinitialize_distributed" /\ exec_error' = "WorkerError"
               /\ calls' # calls) =>
              (~reconfig'.active /\ estate' = estate)]_vars

\* a request for another rank was handled and the executor is still READY
C18_Witness ==
    /\ estate = "READY"
    /\ last_op = "reinitialize_distributed"
    /\ ~reconfig.active
    /\ reconfig.new_data_parallel_rank = 1
    /\ exec_error = "none"

\* C13: on every rank determine_num_available_blocks returns the pair of
\* the smallest device-block count and the smallest host-block count of all
\* ranks' local reports: the pair is the same on every rank that returned
\* and no component is above the rank's own report.
C13_MinOfReports ==
    \A r \in Ranks :
        rank_pc[r] = "returned" =>
            /\ \A q \in Ranks :
                   /\ report[q] # NoReport
                   /\ result[r][1] <= report[q][1]
                   /\ result[r][2] <= report[q][2]
                   /\ rank_pc[q] = "returned" => result[q] = result[r]
            /\ \E q \in Ranks : result[r][1] = report[q][1]
            /\ \E q \in Ranks : result[r][2] = report[q][2]

\* the reports (10,20), (8,25), (9,22) gave (8,20) on every rank
C13_Witness ==
    /\ report[1] = <<10, 20>>
    /\ report[2] = <<8, 25>>
    /\ report[3] = <<9, 22>>
    /\ \A r \in 1..3 : rank_pc[r] = "returned" /\ result[r] = <<8, 20>>

AllEntered == \A r \in Ranks : rank_pc[r] # "idle"
AllReturned == \A r \in Ranks : rank_pc[r] = "returned"

\* C14: determine_num_available_blocks is a barrier.  No rank is past
\* either reduction while some rank has not entered the call, so ranks that
\* called wait as long as one rank stays out; once every rank has called,
\* every call returns.
C14_Barrier ==
    /\ [](\A r \in Ranks :
              rank_pc[r] \in {"all_reduce_b", "returned"} => AllEntered)
    /\ (AllEntered ~> AllReturned)

\* one rank has returned while another is still in the second reduction
C14_Witness ==
    /\ \E r \in Ranks : rank_pc[r] = "returned"
    /\ \E r \in Ranks : rank_pc[r] = "all_reduce_b"

External == config.kind = "ExecutorWithExternalLauncher"

\* a nonzero delay factor, or V1 with its multiprocessing layer on
ConflictingConfig ==
    \/ config.delay_factor # 0
    \/ config.use_v1 /\ config.enable_v1_multiprocessing

\* C15: an ExecutorWithExternalLauncher constructed with a nonzero delay
\* factor, or with VLLM_ENABLE_V1_MULTIPROCESSING on under VLLM_USE_V1,
\* fails with an assertion error; no worker wrapper is built and none of
\* init_worker, init_device, load_model is run.
C15_ConfigRejected ==
    (External /\ ConflictingConfig) =>
        /\ estate = "FAILED"
        /\ exec_error = "AssertionError"
        /\ ~driver_worker
        /\ worker_kwargs = NoKwargs
        /\ calls = << >>

\* both kinds of rejected configuration: this one has the delay factor
C15_Witness ==
    /\ External
    /\ config.delay_factor # 0
    /\ ~(config.use_v1 /\ config.enable_v1_multiprocessing)
    /\ last_op = "_init_executor"
    /\ estate = "FAILED"

EnvironComplete ==
    /\ config.environ.RANK # NoValue
    /\ config.environ.LOCAL_RANK # NoValue
    /\ config.environ.MASTER_ADDR
    /\ config.environ.MASTER_PORT

\* C16: an ExecutorWithExternalLauncher constructed while RANK, LOCAL_RANK,
\* MASTER_ADDR or MASTER_PORT is missing from the environment fails in the
\* constructor before a worker wrapper is built and before init_worker,
\* init_device or load_model is run.
C16_EnvironRequired ==
    (External /\ ~ConflictingConfig /\ ~EnvironComplete) =>
        /\ estate = "FAILED"
        /\ ~driver_worker
        /\ calls = << >>

\* what request r has added to the counter and not taken back
NetOf(r) == ledger[r].inc - Decrements(r)

\* the tracker returned what `await func(...)` returned, tracking enabled
TrackerSucceeded(r) ==
    /\ enable_server_load_tracking
    /\ tpc[r] = "returned"
    /\ InnerOut(r).kind = "return"

\* load_aware_call's own decrements for a response it returned: none before
\* the hooks of a hooked response have run and one after, one at once for
\* any other response
TrackerOwnTiming ==
    \A r \in Requests :
        TrackerSucceeded(r) =>
            /\ ledger[r].inc = 1
            /\ ledger[r].failure = 0
            /\ IF IsHooked(InnerOut(r).resp)
               THEN /\ ledger[r].nohook = 0
                    /\ ledger[r].hook = IF finalized[r] THEN 1 ELSE 0
               ELSE /\ ledger[r].nohook = 1
                    /\ ledger[r].hook = 0

\* C17: with tracking enabled and a handler that returned, the counter
\* still holds the request's increment from the return of a hooked response
\* until its finalize hooks have run and no longer holds it afterwards; for
\* a response without hooks the increment is gone when the tracker returns.
C17_DecrementTiming ==
    /\ LedgerSound
    /\ \A r \in Requests :
           TrackerSucceeded(r) =>
               IF IsHooked(InnerOut(r).resp)
               THEN NetOf(r) = IF finalized[r] THEN 0 ELSE 1
               ELSE NetOf(r) = 0

\* C19: for a request that passes through with_cancellation and
\* load_aware_call in either order, the decrement of listen_for_disconnect
\* and the decrements of load_aware_call (except clause, response without
\* hooks, finalize hook) exclude one another: the counter is decremented at
\* most once for the request, and listen_for_disconnect never decrements
\* for a request that has not been counted.
C19_DecrementsExclusive ==
    \A r \in Requests :
        /\ Decrements(r) <= 1
        /\ ledger[r].watcher <= ledger[r].inc

\* C20: the step in which with_cancellation.wrapper resumes.  With both
\* tasks done it returns the handler task's result or raises its failure,
\* never the sentinel; it returns the sentinel only for a handler task
\* that is not done, and that task has been cancelled in the same step.
C20_HandlerWinsTie ==
    [][\A r \in Requests :
           (gpc[r] = "waiting" /\ gpc'[r] # "waiting") =>
               /\ (handler_task[r] = "done"
                       /\ cancellation_task[r] = "finished") =>
                      /\ guard_out'[r] = task_out[r]
                      /\ guard_out'[r] # Sentinel
                      /\ gpc'[r] = IF task_out[r].kind = "raise"
                                   THEN "raised" ELSE "returned"
               /\ guard_out'[r] = Sentinel =>
                      /\ handler_task[r] # "done"
                      /\ handler_task'[r] = "cancelling"]_vars

\* the watcher finished first, the handler task before the wrapper resumed
C20_Witness ==
    \E r \in Requests :
        /\ GuardFinished(r)
        /\ first_done[r] = "watcher"
        /\ handler_task[r] = "done"
        /\ cancellation_task[r] = "finished"
        /\ guard_out[r] = task_out[r]
        /\ guard_out[r] # Sentinel

====
